---- MODULE Spec2Model ----
(***************************************************************************)
(* Model of tools/form_tools.py of the Digital Paperwork Butler:           *)
(* parse_form, autofill_form and validate_form.                            *)
(*                                                                         *)
(* Strings are sequences of one-character strings, so that lower(),        *)
(* strip(), the substring tests and the three regular expressions are      *)
(* computed character by character.  The Python value None is the          *)
(* one-element sequence None, which is no character sequence.              *)
(*                                                                         *)
(* A PDF document is the mapping that pypdf's get_fields() yields: field   *)
(* name -> [value, page, widget].  Forms are flat (the qualified name of   *)
(* a field is its partial name) and every field has one widget annotation  *)
(* on one page.                                                            *)
(***************************************************************************)
EXTENDS Integers, Sequences, FiniteSets, TLC

\* ------------------------------------------------------------------------
\* Characters and strings
\* ------------------------------------------------------------------------

None == << "<None>" >>

Upper == << "A", "B", "C", "D", "E", "F", "G", "H", "I", "J", "K", "L", "M",
            "N", "O", "P", "Q", "R", "S", "T", "U", "V", "W", "X", "Y", "Z" >>

Lower == << "a", "b", "c", "d", "e", "f", "g", "h", "i", "j", "k", "l", "m",
            "n", "o", "p", "q", "r", "s", "t", "u", "v", "w", "x", "y", "z" >>

Digit == { "0", "1", "2", "3", "4", "5", "6", "7", "8", "9" }

Letter == { Upper[i] : i \in 1..26 } \cup { Lower[i] : i \in 1..26 }

\* str.isspace() on the characters of the model
Whitespace == { " ", "\t", "\n" }

\* \w of Python's re on str patterns: letters, digits and the underscore
WordChar == Letter \cup Digit \cup { "_" }

\* the lower-case letter of every upper-case letter
LowerOf == [ c \in { Upper[i] : i \in 1..26 } |->
               Lower[CHOOSE i \in 1..26 : Upper[i] = c] ]

LowerChar(c) == IF c \in DOMAIN LowerOf THEN LowerOf[c] ELSE c

\* str.lower()
RECURSIVE ToLower(_)
ToLower(s) ==
    IF s = << >> THEN << >>
    ELSE << LowerChar(Head(s)) >> \o ToLower(Tail(s))

\* the Python test `sub in s`
Contains(sub, s) ==
    \E i \in 0..(Len(s) - Len(sub)) : SubSeq(s, i + 1, i + Len(sub)) = sub

\* str.strip()
Strip(s) ==
    LET keep == { i \in 1..Len(s) : s[i] \notin Whitespace }
    IN  IF keep = {} THEN << >>
        ELSE LET first == CHOOSE i \in keep : \A j \in keep : i <= j
                 last  == CHOOSE i \in keep : \A j \in keep : j <= i
             IN  SubSeq(s, first, last)

\* str(value) of a value that already is a Python str (TextStringObject and
\* NameObject are str subclasses): the same characters
Str(v) == v

\* `$` of Python's re: the end of the string, or just before a final newline
BeforeEnd(s) ==
    { s } \cup ( IF Len(s) > 0 /\ s[Len(s)] = "\n"
                 THEN { SubSeq(s, 1, Len(s) - 1) } ELSE {} )

AllIn(s, chars) == \A i \in 1..Len(s) : s[i] \in chars

\* date_pattern = re.compile(r"^\d{4}-\d{2}-\d{2}$")
date_pattern(val) ==
    \E s \in BeforeEnd(val) :
        /\ Len(s) = 10
        /\ \A i \in { 1, 2, 3, 4, 6, 7, 9, 10 } : s[i] \in Digit
        /\ s[5] = "-"
        /\ s[8] = "-"

\* phone_pattern = re.compile(r"^[\+\d\s\-]+$")
phone_pattern(val) ==
    \E s \in BeforeEnd(val) :
        /\ Len(s) >= 1
        /\ AllIn(s, { "+", "-" } \cup Digit \cup Whitespace)

\* postal_pattern = re.compile(r"^[\w\s-]+$")
postal_pattern(val) ==
    \E s \in BeforeEnd(val) :
        /\ Len(s) >= 1
        /\ AllIn(s, WordChar \cup Whitespace \cup { "-" })

\* the literals of the naming rules
kw_date   == << "d", "a", "t", "e" >>
kw_phone  == << "p", "h", "o", "n", "e" >>
kw_postal == << "p", "o", "s", "t", "a", "l" >>
kw_zip    == << "z", "i", "p" >>

\* ------------------------------------------------------------------------
\* validate_form
\* ------------------------------------------------------------------------

\* the emptiness test without the strip()
IsMissing_unstripped(value) == value = None \/ Str(value) = << >>

\* `value is None or str(value).strip() == ""`
IsMissing(value) == value = None \/ Strip(Str(value)) = << >>

\* the chain with the phone branch tested before the date branch
FailsFormat_phone_first(name, value) ==
    LET val == Strip(Str(value))
        low == ToLower(name)
    IN  IF Contains(kw_phone, low) THEN ~ phone_pattern(val)
        ELSE IF Contains(kw_date, low) THEN ~ date_pattern(val)
        ELSE IF Contains(kw_postal, low) \/ Contains(kw_zip, low)
             THEN ~ postal_pattern(val)
        ELSE FALSE

\* the chain with a final else that applies the postal pattern to all other
\* names
FailsFormat_default_rule(name, value) ==
    LET val == Strip(Str(value))
        low == ToLower(name)
    IN  IF Contains(kw_date, low) THEN ~ date_pattern(val)
        ELSE IF Contains(kw_phone, low) THEN ~ phone_pattern(val)
        ELSE ~ postal_pattern(val)

\* the if / elif chain on one non-missing field: TRUE iff it is appended to
\* `invalid`
FailsFormat(name, value) ==
    LET val == Strip(Str(value))
        low == ToLower(name)
    IN  IF Contains(kw_date, low) THEN ~ date_pattern(val)
        ELSE IF Contains(kw_phone, low) THEN ~ phone_pattern(val)
        ELSE IF Contains(kw_postal, low) \/ Contains(kw_zip, low)
             THEN ~ postal_pattern(val)
        ELSE FALSE

\* the loop over fields.items(); fields is a sequence of [name, value] in
\* the dict's order; the result is the two lists
RECURSIVE ValidateLoop(_, _, _)
ValidateLoop(fields, missing, invalid) ==
    IF fields = << >> THEN [ missing |-> missing, invalid |-> invalid ]
    ELSE LET f == Head(fields)
         IN  IF IsMissing(f.value)
             THEN ValidateLoop(Tail(fields), Append(missing, f.name), invalid)
             ELSE IF FailsFormat(f.name, f.value)
             THEN ValidateLoop(Tail(fields), missing, Append(invalid, f.name))
             ELSE ValidateLoop(Tail(fields), missing, invalid)

validate_form(fields) == ValidateLoop(fields, << >>, << >>)

\* ------------------------------------------------------------------------
\* Documents, profiles and the inputs of the model
\* ------------------------------------------------------------------------

\* how many fields a document of the model has at most
MaxFields == 2

\* how many times an output of autofill_form is fed back to it at most
MaxDepth == 2

n_full_name == << "f", "u", "l", "l", "_", "n", "a", "m", "e" >>
n_FULL_NAME == << "F", "U", "L", "L", "_", "N", "A", "M", "E" >>
n_name      == << "n", "a", "m", "e" >>
k_Full_Name == << "F", "u", "l", "l", "_", "N", "a", "m", "e" >>
k_full      == << "f", "u", "l", "l" >>

DocFieldNames == { n_full_name, n_FULL_NAME, n_name }

\* /V of a field: absent, the empty string, or a text
DocValues == { None, << >>, << "X" >> }

\* the page that holds the field's widget; page 0 is writer.pages[0]
Pages == { 0, 1 }

FieldRec == [ value : DocValues, page : Pages, widget : { TRUE } ]

Docs ==
    UNION { [ S -> FieldRec ] :
            S \in { T \in SUBSET DocFieldNames : Cardinality(T) <= MaxFields } }

KV(k, v) == [ key |-> k, value |-> v ]

\* key -> string mappings in dict order
Mappings ==
    { << >>,
      << KV(k_Full_Name, << "J" >>) >>,
      << KV(n_full_name, << "K" >>) >>,
      << KV(k_Full_Name, << "J" >>), KV(n_full_name, << "K" >>) >>,
      << KV(n_full_name, << "K" >>), KV(k_Full_Name, << "J" >>) >>,
      << KV(k_Full_Name, << >>) >>,
      << KV(n_name, << "J" >>), KV(k_full, << "K" >>) >> }

\* the user_data argument: None or a mapping
NoUserData == [ given |-> FALSE, items |-> << >> ]

UserDataArgs == { NoUserData } \cup { [ given |-> TRUE, items |-> m ] : m \in Mappings }

\* metadata/user_data.json: no file, a file that is not JSON, a JSON
\* document that is no object, or a JSON object
ProfileFiles ==
    { [ state |-> s, items |-> << >> ] : s \in { "absent", "corrupt", "not_mapping" } }
    \cup { [ state |-> "ok", items |-> << KV(k_Full_Name, << "J" >>) >> ] }

\* the file "form" followed by k times "_filled" and ".pdf" is path k
Paths == 0..MaxDepth

\* ------------------------------------------------------------------------
\* parse_form
\* ------------------------------------------------------------------------

\* `value == "" or value is None` (parse_form) and `value in ("", None)`
\* (autofill_form)
IsEmptyValue(value) == value = << >> \/ value = None

\* reader.get_fields(): the fields of the document's AcroForm
get_fields(doc) == doc

\* parse_form mapping only an absent /V to None
parse_form_absent_only(doc) ==
    LET fields == get_fields(doc)
    IN  [ name \in DOMAIN fields |->
            IF fields[name].value = None THEN None
            ELSE Str(fields[name].value) ]

\* the body of parse_form once the file is known to exist
parse_form(doc) ==
    LET fields == get_fields(doc)
    IN  [ name \in DOMAIN fields |->
            IF IsEmptyValue(fields[name].value) THEN None
            ELSE Str(fields[name].value) ]

\* ------------------------------------------------------------------------
\* autofill_form
\* ------------------------------------------------------------------------

\* _load_user_data: open() raises when the file is absent, json.load raises
\* when it is not JSON; a JSON document that is no object is returned as is
load_user_data(file) ==
    IF file.state \in { "absent", "corrupt" }
    THEN [ raised |-> TRUE, mapping |-> FALSE, items |-> << >> ]
    ELSE [ raised |-> FALSE, mapping |-> file.state = "ok", items |-> file.items ]

\* the default lookup whose except branch leaves user_data at None, so that
\* user_data.items() raises
ResolveUserData_no_default(arg, file) ==
    IF arg.given THEN [ mapping |-> TRUE, items |-> arg.items ]
    ELSE LET r == load_user_data(file)
         IN  IF r.raised THEN [ mapping |-> FALSE, items |-> << >> ]
             ELSE [ mapping |-> r.mapping, items |-> r.items ]

\* `if user_data is None: try: ... except Exception: user_data = {}`
ResolveUserData(arg, file) ==
    IF arg.given THEN [ mapping |-> TRUE, items |-> arg.items ]
    ELSE LET r == load_user_data(file)
         IN  IF r.raised THEN [ mapping |-> TRUE, items |-> << >> ]
             ELSE [ mapping |-> r.mapping, items |-> r.items ]

\* {k.lower(): v for k, v in user_data.items()}: a later key replaces an
\* earlier one that lowers to the same string
user_data_lower(items) ==
    LET keys == { ToLower(items[i].key) : i \in 1..Len(items) }
        lastOf(k) == CHOOSE i \in 1..Len(items) :
                        /\ ToLower(items[i].key) = k
                        /\ \A j \in 1..Len(items) :
                              ToLower(items[j].key) = k => j <= i
    IN  [ k \in keys |-> items[lastOf(k)].value ]

\* the loop without the test `value in ("", None)`
FillValues_overwrite(doc, lowered) ==
    LET fields == get_fields(doc)
        chosen == { name \in DOMAIN fields : ToLower(name) \in DOMAIN lowered }
    IN  [ name \in chosen |-> lowered[ToLower(name)] ]

\* the loop leaving after the first field it plans
FillValues_first_only(doc, lowered) ==
    LET fields == get_fields(doc)
        chosen == { name \in DOMAIN fields :
                      /\ IsEmptyValue(fields[name].value)
                      /\ ToLower(name) \in DOMAIN lowered }
        first == IF chosen = {} THEN {} ELSE { CHOOSE name \in chosen : TRUE }
    IN  [ name \in first |-> lowered[ToLower(name)] ]

\* the loop that builds fill_values
FillValues(doc, lowered) ==
    LET fields == get_fields(doc)
        chosen == { name \in DOMAIN fields :
                      /\ IsEmptyValue(fields[name].value)
                      /\ ToLower(name) \in DOMAIN lowered }
    IN  [ name \in chosen |-> lowered[ToLower(name)] ]

\* writer.update_page_form_field_values(page, fields, ...): the widgets of
\* the given page whose field is a key of `fields` get its value
update_page_form_field_values(doc, page, fields) ==
    [ name \in DOMAIN doc |->
        IF name \in DOMAIN fields /\ doc[name].widget /\ doc[name].page = page
        THEN [ doc[name] EXCEPT !.value = fields[name] ]
        ELSE doc[name] ]

\* writer.remove_annotations(subtypes="/Widget"): every page loses its
\* widgets.  Whether get_fields() still lists a field whose widget is gone
\* depends on the pypdf build (`drops`): it either drops the field with the
\* widget or keeps the field dictionary in the AcroForm.
remove_annotations(doc, drops) ==
    IF drops
    THEN [ name \in { n \in DOMAIN doc : ~ doc[n].widget } |-> doc[name] ]
    ELSE [ name \in DOMAIN doc |-> [ doc[name] EXCEPT !.widget = FALSE ] ]

\* the body of autofill_form from the fill plan to the written document
WrittenDoc(doc, fill_values, flat, drops) ==
    LET d1 == IF DOMAIN fill_values # {}
              THEN update_page_form_field_values(doc, 0, fill_values)
              ELSE doc
    IN  IF flat
        THEN remove_annotations(
                 update_page_form_field_values(d1, 0, fill_values), drops)
        ELSE d1

\* output_path: "<base>_filled.pdf" next to the input
OutputPath(path) == path + 1

\* ------------------------------------------------------------------------
\* Inputs of validate_form
\* ------------------------------------------------------------------------

\* how many entries a mapping given to validate_form has at most
MaxChecked == 2

c_date == << "d", "a", "t", "e" >>
c_phone_date == << "p", "h", "o", "n", "e", "_", "d", "a", "t", "e" >>
c_zipdate == << "z", "i", "p", "d", "a", "t", "e" >>
c_Phone == << "P", "h", "o", "n", "e" >>
c_phonezip == << "p", "h", "o", "n", "e", "z", "i", "p" >>
c_postal == << "p", "o", "s", "t", "a", "l" >>
c_ZIP == << "Z", "I", "P" >>
c_name == << "n", "a", "m", "e" >>
v_blank == << " ", "\t" >>
v_date_padded == << " ", "2", "0", "2", "4", "-", "0", "1", "-", "0", "5", "\n" >>
v_phone == << "+", "1", " ", "5", "5" >>
v_postal == << "A", "1", " ", "2" >>
v_underscore == << "A", "_", "1" >>
v_hash == << "a", "#", "1" >>
v_tab == << "1", "\t", "2" >>

CheckedNames == { c_date, c_phone_date, c_zipdate, c_Phone, c_phonezip, c_postal, c_ZIP, c_name }

CheckedValues == { None, << >>, v_blank, v_date_padded, v_phone, v_postal, v_underscore, v_hash, v_tab }

RECURSIVE SeqsUpTo(_, _)
SeqsUpTo(S, n) ==
    IF n = 0 THEN { << >> }
    ELSE LET shorter == SeqsUpTo(S, n - 1)
         IN  shorter \cup { Append(q, x) : q \in shorter, x \in S }

\* dicts have distinct keys
CheckedInputs ==
    { q \in SeqsUpTo([ name : CheckedNames, value : CheckedValues ], MaxChecked) :
        \A i, j \in 1..Len(q) : q[i].name = q[j].name => i = j }

\* ------------------------------------------------------------------------
\* State
\* ------------------------------------------------------------------------

VARIABLES
    files,        \* the PDF files on disk: path -> document
    profile,      \* metadata/user_data.json
    drops,        \* the pypdf build: remove_annotations drops the fields
    user_data,    \* the user_data argument the caller passes to autofill_form
    flatten,      \* the flatten argument the caller passes to autofill_form
    parsed,       \* the last call of parse_form and what it returned
    filled,       \* the last call of autofill_form, its plan and its outcome
    checked,      \* the mapping the caller passes to validate_form
    report        \* what the last call of validate_form returned

vars == << files, profile, drops, user_data, flatten, parsed, filled, checked, report >>

NoParse  == [ path |-> -1, status |-> "none", result |-> << >> ]
NoFill   == [ path |-> -1, status |-> "none", fill_values |-> << >> ]
NoReport == [ status |-> "none", missing |-> << >>, invalid |-> << >> ]

Init ==
    /\ \E doc \in Docs : files = [ p \in { 0 } |-> doc ]
    /\ \/ user_data \in UserDataArgs \ { NoUserData }
          /\ profile = [ state |-> "absent", items |-> << >> ]
       \/ user_data = NoUserData /\ profile \in ProfileFiles
    /\ flatten \in BOOLEAN
    /\ drops \in IF flatten THEN BOOLEAN ELSE { FALSE }
    /\ parsed = NoParse
    /\ filled = NoFill
    /\ checked = << >>
    /\ report = NoReport

\* parse_form(pdf_path)
ParseForm(path) ==
    /\ parsed' = IF path \in DOMAIN files
                 THEN [ path |-> path, status |-> "ok",
                        result |-> parse_form(files[path]) ]
                 ELSE [ path |-> path, status |-> "FileNotFoundError",
                        result |-> << >> ]
    /\ UNCHANGED << files, profile, drops, user_data, flatten, filled, checked, report >>

\* autofill_form(pdf_path, user_data, None, flatten)
AutofillForm(path) ==
    /\ path < MaxDepth
    /\ LET resolved == ResolveUserData(user_data, profile)
           plan == FillValues(files[path], user_data_lower(resolved.items))
           out == OutputPath(path)
       IN  IF path \notin DOMAIN files
           THEN /\ filled' = [ path |-> path, status |-> "FileNotFoundError",
                               fill_values |-> << >> ]
                /\ files' = files
           ELSE IF ~ resolved.mapping
           THEN /\ filled' = [ path |-> path, status |-> "AttributeError",
                               fill_values |-> << >> ]
                /\ files' = files
           ELSE /\ filled' = [ path |-> path, status |-> "ok",
                               fill_values |-> plan ]
                /\ files' = [ q \in DOMAIN files \cup { out } |->
                                IF q = out
                                THEN WrittenDoc(files[path], plan, flatten, drops)
                                ELSE files[q] ]
    /\ UNCHANGED << profile, drops, user_data, flatten, parsed, checked, report >>

Next ==
    \/ \E path \in Paths : ParseForm(path)
    \/ \E path \in Paths : AutofillForm(path)

Spec == Init /\ [][Next]_vars

\* validate_form(fields): it needs no document
InitValidate ==
    /\ files = << >>
    /\ profile = [ state |-> "absent", items |-> << >> ]
    /\ drops = FALSE
    /\ user_data = NoUserData
    /\ flatten = FALSE
    /\ parsed = NoParse
    /\ filled = NoFill
    /\ checked \in CheckedInputs
    /\ report = NoReport

ValidateForm ==
    /\ report' = [ status |-> "ok" ] @@ validate_form(checked)
    /\ UNCHANGED << files, profile, drops, user_data, flatten, parsed, filled, checked >>

NextValidate == ValidateForm

SpecValidate == InitValidate /\ [][NextValidate]_vars

TypeOK ==
    /\ DOMAIN files \subseteq Paths
    /\ parsed.status \in { "none", "ok", "FileNotFoundError" }
    /\ filled.status \in { "none", "ok", "FileNotFoundError", "AttributeError" }

\* ------------------------------------------------------------------------
\* Properties of validate_form (checked under SpecValidate)
\* ------------------------------------------------------------------------

InSeq(x, q) == \E i \in 1..Len(q) : q[i] = x

\* null, or nothing but whitespace
Blank(value) == value = None \/ AllIn(value, Whitespace)

HasDate(name)   == Contains(kw_date, ToLower(name))
HasPhone(name)  == Contains(kw_phone, ToLower(name))
HasPostal(name) == Contains(kw_postal, ToLower(name)) \/ Contains(kw_zip, ToLower(name))

\* C1: every field whose value is null or blank after trimming is reported
\* in `missing` and never in `invalid`, whatever its name; no field name is
\* in both lists.
C1_MissingWins ==
    report.status = "ok" =>
        /\ \A i \in 1..Len(checked) :
              Blank(checked[i].value) =>
                  /\ InSeq(checked[i].name, report.missing)
                  /\ ~ InSeq(checked[i].name, report.invalid)
        /\ \A i \in 1..Len(checked) :
              ~ ( InSeq(checked[i].name, report.missing)
                  /\ InSeq(checked[i].name, report.invalid) )

\* a field named phone_date whose value is only whitespace was validated
\* next to an invalid field
C1_Witness ==
    /\ report.status = "ok"
    /\ \E i \in 1..Len(checked) :
          checked[i].name = c_phone_date /\ checked[i].value = v_blank
    /\ InSeq(c_phone_date, report.missing)
    /\ report.invalid # << >>

\* C8: one format rule per non-empty field, first match in the order date,
\* phone, postal/zip: a name containing `date` is invalid iff its trimmed
\* value fails the date pattern, and a name containing `phone` but not
\* `date` is invalid iff its trimmed value fails the phone pattern.
C8_FirstRuleWins ==
    report.status = "ok" =>
        \A i \in 1..Len(checked) :
            LET name == checked[i].name
                value == checked[i].value
            IN  ~ Blank(value) =>
                  /\ HasDate(name) =>
                        ( InSeq(name, report.invalid) <=> ~ date_pattern(Strip(value)) )
                  /\ ( HasPhone(name) /\ ~ HasDate(name) ) =>
                        ( InSeq(name, report.invalid) <=> ~ phone_pattern(Strip(value)) )

\* phone_date holds a good phone number and is invalid (date rule), and
\* phonezip holds a good postal code and is invalid (phone rule)
C8_Witness ==
    /\ report.status = "ok"
    /\ \E i \in 1..Len(checked) :
          checked[i].name = c_phone_date /\ checked[i].value = v_phone
    /\ InSeq(c_phone_date, report.invalid)
    /\ \E i \in 1..Len(checked) :
          checked[i].name = c_phonezip /\ checked[i].value = v_postal
    /\ InSeq(c_phonezip, report.invalid)

\* C9: a non-empty field whose name contains `postal` or `zip` (and neither
\* `date` nor `phone`) is invalid iff its trimmed value contains a character
\* other than an alphanumeric character, a space or `-`.
C9_PostalRule ==
    report.status = "ok" =>
        \A i \in 1..Len(checked) :
            LET name == checked[i].name
                value == checked[i].value
            IN  ( ~ Blank(value) /\ HasPostal(name)
                  /\ ~ HasDate(name) /\ ~ HasPhone(name) ) =>
                    ( InSeq(name, report.invalid)
                      <=> ~ AllIn(Strip(value), Letter \cup Digit \cup { " ", "-" }) )

\* C10: a field whose name contains none of date, phone, postal, zip is
\* never reported invalid, whatever its value.
C10_NoRuleNeverInvalid ==
    report.status = "ok" =>
        \A i \in 1..Len(checked) :
            LET name == checked[i].name
            IN  ( ~ HasDate(name) /\ ~ HasPhone(name) /\ ~ HasPostal(name) ) =>
                    ~ InSeq(name, report.invalid)

\* the field `name` holds a value that fails all three patterns, next to a
\* field that is reported invalid
C10_Witness ==
    /\ report.status = "ok"
    /\ \E i \in 1..Len(checked) :
          checked[i].name = c_name /\ checked[i].value = v_hash
    /\ ~ InSeq(c_name, report.invalid)
    /\ report.invalid # << >>

\* ------------------------------------------------------------------------
\* Properties of parse_form and autofill_form (checked under Spec)
\* ------------------------------------------------------------------------

\* the pairs (input file, output file) of autofill_form that are on disk
FilledPaths == { p \in DOMAIN files : OutputPath(p) \in DOMAIN files }

\* the keys of user_data that equal `name` up to case
MatchingKeys(name, items) ==
    { i \in 1..Len(items) : ToLower(items[i].key) = ToLower(name) }

\* C2: a field whose current value is non-empty is never in the fill plan,
\* and its value in the output document is its value in the input
\* document, even when user_data has a key that matches its name.
C2_NeverOverwrites ==
    /\ filled.status = "ok" =>
          \A name \in DOMAIN files[filled.path] :
              ~ IsEmptyValue(files[filled.path][name].value) =>
                  name \notin DOMAIN filled.fill_values
    /\ \A p \in FilledPaths :
          \A name \in DOMAIN files[p] :
              ~ IsEmptyValue(files[p][name].value) =>
                  ( name \in DOMAIN files[OutputPath(p)] =>
                        files[OutputPath(p)][name].value = files[p][name].value )

\* full_name holds "X" on the first page, user_data has the key Full_Name,
\* and the form was filled without flattening
C2_Witness ==
    /\ filled.status = "ok" /\ filled.path = 0
    /\ user_data.given /\ MatchingKeys(n_full_name, user_data.items) # {}
    /\ ~ flatten
    /\ n_full_name \in DOMAIN files[0]
    /\ files[0][n_full_name] = [ value |-> << "X" >>, page |-> 0, widget |-> TRUE ]
    /\ files[1][n_full_name].value = << "X" >>

\* C3: every empty field whose name equals a user_data key up to case holds
\* that key's value in the output of fill_form, and no empty field whose
\* name matches no key up to case is filled.  (Stated for unflattened
\* output, and with "that key" read as any key that matches.)
C3_CaseInsensitiveFill ==
    ( filled.status = "ok" /\ ~ flatten ) =>
        LET items == ResolveUserData(user_data, profile).items
            in == files[filled.path]
            out == files[OutputPath(filled.path)]
        IN  \A name \in DOMAIN in :
                IsEmptyValue(in[name].value) =>
                    IF MatchingKeys(name, items) # {}
                    THEN \E i \in MatchingKeys(name, items) :
                            out[name].value = items[i].value
                    ELSE out[name].value = in[name].value

\* C4: the field values extracted from fill_form(fill_form(pdf, data), data)
\* are the field values extracted from fill_form(pdf, data).
C4_Idempotent ==
    \A p \in FilledPaths :
        OutputPath(p) \in FilledPaths =>
            parse_form(files[OutputPath(OutputPath(p))])
                = parse_form(files[OutputPath(p)])

\* the first pass filled two fields and the second pass has run
C4_Witness ==
    /\ filled.status = "ok" /\ filled.path = 1
    /\ 2 \in DOMAIN files
    /\ Cardinality({ name \in DOMAIN files[0] :
                        /\ name \in DOMAIN files[1]
                        /\ IsEmptyValue(files[0][name].value)
                        /\ ~ IsEmptyValue(files[1][name].value) }) = 2

\* C5: after fill_form with flatten = true, no name of a field whose widget
\* was removed appears in the parse_form output of the resulting document.
C5_FlattenedNamesGone ==
    ( parsed.status = "ok" /\ flatten /\ parsed.path - 1 \in FilledPaths ) =>
        \A name \in DOMAIN files[parsed.path - 1] :
            files[parsed.path - 1][name].widget => name \notin DOMAIN parsed.result

C7_MissingProfile ==
    ( /\ filled.status # "none"
      /\ filled.path \in DOMAIN files
      /\ ~ user_data.given
      /\ profile.state \in { "absent", "corrupt" } ) =>
        /\ filled.status = "ok"
        /\ DOMAIN filled.fill_values = {}
        /\ LET in == files[filled.path]
               out == files[OutputPath(filled.path)]
           IN  /\ ~ flatten => DOMAIN out = DOMAIN in
               /\ \A name \in DOMAIN out :
                     name \in DOMAIN in /\ out[name].value = in[name].value

\* the profile file is not JSON, the document has an empty full_name on the
\* first page, and it was filled without flattening
C7_Witness ==
    /\ filled.status = "ok" /\ filled.path = 0
    /\ ~ user_data.given /\ profile.state = "corrupt"
    /\ ~ flatten
    /\ n_full_name \in DOMAIN files[0]
    /\ files[0][n_full_name] = [ value |-> None, page |-> 0, widget |-> TRUE ]
    /\ files[1][n_full_name].value = None

====
